---- MODULE Spec2Model ----
(***************************************************************************)
(* Chimera Update (src/main.py): a GTK front-end that detects the running  *)
(* distribution, selects a package-manager backend and runs its check and  *)
(* upgrade commands on worker threads.                                     *)
(*                                                                         *)
(* The model follows the Python source line by line.  Python strings are   *)
(* TLA+ strings; the main script, every worker thread and every queued     *)
(* GLib idle callback has its own position in the state.                   *)
(***************************************************************************)
EXTENDS Integers, Sequences, FiniteSets, TLC

(***************************************************************************)
(* Bounds of the model (not program constants).                            *)
(***************************************************************************)
\* number of handler invocations (button clicks) explored in one run
MaxClicks == 2
\* largest update count the count command reports
MaxCount == 2
\* largest exit status a package-manager command returns
MaxExit == 1

(***************************************************************************)
(* Module-level string constants, src/main.py lines 11-20.                 *)
(***************************************************************************)
TITLE_CHIMERA_UPDATE_ERROR == "Chimera Update Error"
UPDATE_CHECKING == "Updates: Checking..."

(***************************************************************************)
(* Python string primitives used by the program.                           *)
(***************************************************************************)
\* the characters str.strip() removes
Whitespace == {" ", "\t", "\n", "\r", "\f"}

CharAt(s, i) == SubSeq(s, i, i)

\* str.startswith(prefix)
StartsWith(s, prefix) ==
    /\ Len(s) >= Len(prefix)
    /\ SubSeq(s, 1, Len(prefix)) = prefix

\* s[n:]
SliceFrom(s, n) == SubSeq(s, n + 1, Len(s))

RECURSIVE LStrip(_)
LStrip(s) ==
    IF Len(s) > 0 /\ CharAt(s, 1) \in Whitespace
    THEN LStrip(SubSeq(s, 2, Len(s)))
    ELSE s

RECURSIVE RStrip(_)
RStrip(s) ==
    IF Len(s) > 0 /\ CharAt(s, Len(s)) \in Whitespace
    THEN RStrip(SubSeq(s, 1, Len(s) - 1))
    ELSE s

\* str.strip()
Strip(s) == RStrip(LStrip(s))

Digits == {"0", "1", "2", "3", "4", "5", "6", "7", "8", "9"}

DigitVal(c) ==
    CASE c = "0" -> 0 [] c = "1" -> 1 [] c = "2" -> 2 [] c = "3" -> 3
      [] c = "4" -> 4 [] c = "5" -> 5 [] c = "6" -> 6 [] c = "7" -> 7
      [] c = "8" -> 8 [] c = "9" -> 9

RECURSIVE DigitsValue(_, _)
\* value of a non-empty digit string, most significant digit first
DigitsValue(s, acc) ==
    IF Len(s) = 0 THEN acc
    ELSE DigitsValue(SubSeq(s, 2, Len(s)), 10 * acc + DigitVal(CharAt(s, 1)))

AllDigits(s) == /\ Len(s) > 0
                /\ \A i \in 1..Len(s) : CharAt(s, i) \in Digits

\* int(s): surrounding whitespace is ignored, one optional sign, then decimal
\* digits; anything else raises ValueError.
PyInt(s) ==
    LET t == Strip(s)
        signed == Len(t) > 0 /\ CharAt(t, 1) \in {"+", "-"}
        body == IF signed THEN SubSeq(t, 2, Len(t)) ELSE t
    IN  IF AllDigits(body)
        THEN [raised |-> "",
              value |-> IF signed /\ CharAt(t, 1) = "-"
                        THEN 0 - DigitsValue(body, 0)
                        ELSE DigitsValue(body, 0)]
        ELSE [raised |-> "ValueError", value |-> 0]

\* f"{n}" for an int
PyStr(n) == IF n < 0 THEN "-" \o ToString(0 - n) ELSE ToString(n)

(***************************************************************************)
(* Python values.                                                          *)
(***************************************************************************)
None == [type |-> "NoneType"]

\* subprocess.CompletedProcess as process.run(..., capture_output=True,
\* text=True) builds it
CompletedProcess(rc, out, err) ==
    [type |-> "CompletedProcess", returncode |-> rc, stdout |-> out, stderr |-> err]

(***************************************************************************)
(* Package-manager classes, src/main.py lines 162-219.                     *)
(***************************************************************************)
PackageManager ==
    [cls |-> "PackageManager",
     check_updates_cmd |-> "",
     count_updates_cmd |-> "",
     upgrade_cmd |-> ""]

AptManager ==
    [PackageManager EXCEPT
        !.cls = "AptManager",
        !.check_updates_cmd = "apt-get -q update",
        !.count_updates_cmd =
            "apt-get -q -y --ignore-hold --allow-change-held-packages "
            \o "                                  "
            \o "--allow-unauthenticated -s dist-upgrade | grep ^Inst | wc -l",
        !.upgrade_cmd = "apt upgrade -y"]

\* NalaManager as it would be deriving from PackageManager instead of
\* AptManager: only the upgrade template is set
NalaManager_unrooted ==
    [PackageManager EXCEPT !.cls = "NalaManager", !.upgrade_cmd = "nala upgrade -y"]

NalaManager ==
    [AptManager EXCEPT !.cls = "NalaManager", !.upgrade_cmd = "nala upgrade -y"]

DnfManager ==
    [PackageManager EXCEPT
        !.cls = "DnfManager",
        !.count_updates_cmd = "dnf check-update | grep -v '^$' | wc -l",
        !.check_updates_cmd = "dnf check-update",
        !.upgrade_cmd = "dnf upgrade"]

PacmanManager ==
    [PackageManager EXCEPT
        !.cls = "PacmanManager",
        !.count_updates_cmd = "pacman -Qu | wc -l",
        !.check_updates_cmd = "pacman -Qu",
        !.upgrade_cmd = "pacman -Syu"]

Managers == {AptManager, NalaManager, DnfManager, PacmanManager}

(***************************************************************************)
(* DistroCheck, src/main.py lines 222-282.                                 *)
(***************************************************************************)
\* self.package_managers: distro id -> ordered (tool name, class) candidates
package_managers ==
    ("debian" :> << <<"nala", NalaManager>>, <<"apt", AptManager>> >>) @@
    ("ubuntu" :> << <<"nala", NalaManager>>, <<"apt", AptManager>> >>) @@
    ("fedora" :> << <<"dnf", DnfManager>> >>) @@
    ("arch" :> << <<"pacman", PacmanManager>> >>) @@
    ("arcolinux" :> << <<"pacman", PacmanManager>> >>)

Tools == {"nala", "apt", "dnf", "pacman"}

\* exit status of `which name` on a host where the tools in installed are on
\* the search path
WhichExit(name, installed) == IF name \in installed THEN 0 ELSE 1

is_tool_available(name, installed) == WhichExit(name, installed) = 0

RECURSIVE FirstIDLine(_, _)
\* the for loop of get_distro_id from line i on: index of the first line that
\* starts with "ID=", 0 when the loop runs off the end
FirstIDLine(lines, i) ==
    IF i > Len(lines) THEN 0
    ELSE IF StartsWith(lines[i], "ID=") THEN i
    ELSE FirstIDLine(lines, i + 1)

\* get_distro_id as it would be without the strip() call: the line's newline
\* stays in the id
get_distro_id_unstripped(file) ==
    IF ~file.readable
    THEN [raised |-> "OSError",
          message |-> "[Errno 2] No such file or directory: '/etc/os-release'",
          value |-> ""]
    ELSE LET i == FirstIDLine(file.lines, 1)
         IN  IF i = 0
             THEN [raised |-> "Exception",
                   message |-> "Could not determine distro from /etc/os-release",
                   value |-> ""]
             ELSE [raised |-> "", message |-> "",
                   value |-> SliceFrom(file.lines[i], 3)]

\* get_distro_id(): the return value, or the exception that propagates
get_distro_id(file) ==
    IF ~file.readable
    THEN [raised |-> "OSError",
          message |-> "[Errno 2] No such file or directory: '/etc/os-release'",
          value |-> ""]
    ELSE LET i == FirstIDLine(file.lines, 1)
         IN  IF i = 0
             THEN [raised |-> "Exception",
                   message |-> "Could not determine distro from /etc/os-release",
                   value |-> ""]
             ELSE [raised |-> "", message |-> "",
                   value |-> Strip(SliceFrom(file.lines[i], 3))]

\* SelectFrom as it would be with the probe's result unused: the first
\* candidate is taken whether or not its tool is installed
SelectFrom_unprobed(options, i, installed, probed, id) ==
    [raised |-> "", message |-> "",
     value |-> options[i][2],
     probed |-> Append(probed, options[i][1]), constructed |-> 1]

RECURSIVE SelectFrom_stopsEarly(_, _, _, _, _)
\* SelectFrom as it would be with the final raise inside the loop: the search
\* gives up after the first candidate whose tool is missing
SelectFrom_stopsEarly(options, i, installed, probed, id) ==
    IF i > Len(options) \/ ~is_tool_available(options[i][1], installed)
    THEN [raised |-> "Exception",
          message |-> "No supported package manager available for distro: " \o id,
          value |-> None,
          probed |-> IF i > Len(options) THEN probed
                     ELSE Append(probed, options[i][1]),
          constructed |-> 0]
    ELSE [raised |-> "", message |-> "",
          value |-> options[i][2],
          probed |-> Append(probed, options[i][1]), constructed |-> 1]

RECURSIVE SelectFrom_eager(_, _, _, _, _)
\* SelectFrom as it would be with the candidate's class instantiated before
\* its tool is probed: every probed candidate costs an instance
SelectFrom_eager(options, i, installed, probed, id) ==
    IF i > Len(options)
    THEN [raised |-> "Exception",
          message |-> "No supported package manager available for distro: " \o id,
          value |-> None, probed |-> probed, constructed |-> Len(options)]
    ELSE IF is_tool_available(options[i][1], installed)
    THEN [raised |-> "", message |-> "",
          value |-> options[i][2],
          probed |-> Append(probed, options[i][1]), constructed |-> i]
    ELSE SelectFrom_eager(options, i + 1, installed,
                          Append(probed, options[i][1]), id)

RECURSIVE SelectFrom(_, _, _, _, _)
\* the for loop of get_package_manager_for_distro from candidate i on; probed
\* is the sequence of tool names handed to is_tool_available so far
SelectFrom(options, i, installed, probed, id) ==
    IF i > Len(options)
    THEN [raised |-> "Exception",
          message |-> "No supported package manager available for distro: " \o id,
          value |-> None, probed |-> probed, constructed |-> 0]
    ELSE IF is_tool_available(options[i][1], installed)
    THEN [raised |-> "", message |-> "",
          value |-> options[i][2],
          probed |-> Append(probed, options[i][1]), constructed |-> 1]
    ELSE SelectFrom(options, i + 1, installed,
                    Append(probed, options[i][1]), id)

\* get_package_manager_for_distro as it would be with the table lookup
\* defaulting to the debian candidates instead of None
get_package_manager_for_distro_defaulting(id, installed) ==
    SelectFrom(IF id \in DOMAIN package_managers THEN package_managers[id]
               ELSE package_managers["debian"],
               1, installed, << >>, id)

\* get_package_manager_for_distro()
get_package_manager_for_distro(id, installed) ==
    IF id \notin DOMAIN package_managers
    THEN [raised |-> "Exception",
          message |-> "No supported package manager found for distro: " \o id,
          value |-> None, probed |-> << >>, constructed |-> 0]
    ELSE SelectFrom(package_managers[id], 1, installed, << >>, id)

(***************************************************************************)
(* The host the program runs on.                                           *)
(***************************************************************************)
ReleaseFile(lines) == [readable |-> TRUE, lines |-> lines]

Unreadable == [readable |-> FALSE, lines |-> << >>]

DistroNames == DOMAIN package_managers \cup {"gentoo"}

\* /etc/os-release as distro d ships it
StandardRelease(d) ==
    ReleaseFile(<< "NAME=Linux\n", "ID=" \o d \o "\n", "ID_LIKE=debian\n" >>)

\* contents of /etc/os-release the model starts from
OsReleaseFiles ==
    {Unreadable, ReleaseFile(<< "NAME=Linux\n", "VERSION_ID=12\n" >>)}
    \cup {StandardRelease(d) : d \in DistroNames}
    \cup {ReleaseFile(<< "ID_LIKE=debian\n", "ID=\"ubuntu\"\n" >>),
          ReleaseFile(<< "ID=fedora \n", "ID=arch\n" >>)}

\* what the check command prints: a package or index listing, never a number
CheckStdout == "linux 6.1-1 -> 6.2-1\n"

\* what the count command prints: `wc -l` output, or text that is no number
CountStdouts == {PyStr(n) \o "\n" : n \in 0..MaxCount} \cup {"abc\n"}

ExitCodes == 0..MaxExit

\* the state of the package database as the three commands report it
SysStates ==
    [check_rc : ExitCodes, count_out : CountStdouts, upgrade_rc : ExitCodes]

\* /bin/sh -c cmd on a host in state s
ShellRun(cmd, s) ==
    IF \E m \in Managers : cmd = m.check_updates_cmd
    THEN CompletedProcess(s.check_rc, CheckStdout,
                          IF s.check_rc = 0 THEN "" ELSE "error\n")
    ELSE IF \E m \in Managers : cmd = m.count_updates_cmd
    THEN CompletedProcess(0, s.count_out, "")
    ELSE IF \E m \in Managers : cmd = m.upgrade_cmd
    THEN CompletedProcess(s.upgrade_rc, "",
                          IF s.upgrade_rc = 0 THEN "" ELSE "error\n")
    ELSE CompletedProcess(0, "", "")

(***************************************************************************)
(* run_command and the PackageManager methods, src/main.py lines 150-180.  *)
(* A call yields the exception that propagates (raised), the value handed  *)
(* to the caller (value) and, for the record, what the child process       *)
(* produced (result).                                                      *)
(***************************************************************************)
\* process.run without check=True never raises CalledProcessError, so the
\* except clause is dead.  The function has no return statement.  (A shell
\* that cannot be started at all raises OSError; the model's host always has
\* one.)
run_command(cmd, s) ==
    [raised |-> "", value |-> None, result |-> ShellRun(cmd, s)]

check_updates(pm, s) == run_command(pm.check_updates_cmd, s)

count_updates(pm, s) == run_command(pm.count_updates_cmd, s)

upgrade(pm, s) == run_command(pm.upgrade_cmd, s)

(***************************************************************************)
(* ChimeraWindow, src/main.py lines 23-147.                                *)
(***************************************************************************)
\* a callable queued with GLib.idle_add, with its argument
Callback(fn, msg, n) == [fn |-> fn, msg |-> msg, n |-> n]

\* send_notification: notify_ok says whether notify-send can be started.
\* The except branch formats an undefined name and so raises NameError.
send_notification(title, message, urgent, notify_ok) ==
    IF notify_ok
    THEN [raised |-> "",
          sent |-> << [title |-> title, message |-> message, urgent |-> urgent] >>]
    ELSE [raised |-> "NameError", sent |-> << >>]

\* the widgets a callback touches
Widgets(label, spin, sensitive) ==
    [label1 |-> label, spinner |-> spin, button_upgrade |-> sensitive]

Outcome(w, raised, sent) == [w |-> w, raised |-> raised, sent |-> sent]

\* update_results(updates), lines 66-85
update_results(w, updates, notify_ok) ==
    LET update_msg ==
            IF updates = 0 THEN "Your system is up-to-date."
            ELSE IF updates = 1 THEN "There is one update available."
            ELSE "There are " \o PyStr(updates) \o " updates available."
        note == send_notification("Chimera Update", update_msg, FALSE, notify_ok)
    IN  IF note.raised # ""
        THEN Outcome(w, note.raised, note.sent)
        ELSE Outcome(Widgets("Updates: " \o update_msg, FALSE, updates > 0),
                     "", note.sent)

\* show_error(message), lines 113-116
show_error(w, message, notify_ok) ==
    LET shown == [w EXCEPT !.label1 = "Error: " \o message]
        note == send_notification(TITLE_CHIMERA_UPDATE_ERROR, message, TRUE, notify_ok)
    IN  IF note.raised # ""
        THEN Outcome(shown, note.raised, note.sent)
        ELSE Outcome([shown EXCEPT !.spinner = FALSE], "", note.sent)

\* update_after_upgrade(), lines 131-137
update_after_upgrade(w, notify_ok) ==
    LET shown == [w EXCEPT !.label1 = "Updates: Update Complete!"]
        note == send_notification("Chimera Update",
                    "Update complete! Your system is up-to-date.", FALSE, notify_ok)
    IN  IF note.raised # ""
        THEN Outcome(shown, note.raised, note.sent)
        ELSE Outcome([shown EXCEPT !.spinner = FALSE], "", note.sent)

\* one queued callable run on the UI thread
Invoke(cb, w, notify_ok) ==
    CASE cb.fn = "spinner.start" -> Outcome([w EXCEPT !.spinner = TRUE], "", << >>)
      [] cb.fn = "label1.set_text" -> Outcome([w EXCEPT !.label1 = cb.msg], "", << >>)
      [] cb.fn = "show_error" -> show_error(w, cb.msg, notify_ok)
      [] cb.fn = "update_results" -> update_results(w, cb.n, notify_ok)
      [] cb.fn = "update_after_upgrade" -> update_after_upgrade(w, notify_ok)

\* a threading.Thread running target, about to execute line pc
Thread(target, pc) ==
    [target |-> target, pc |-> pc, raised |-> "", ran |-> << >>, posted |-> << >>]

\* on_button_updates_clicked, lines 91-95
on_button_updates_clicked ==
    [posts |-> << Callback("spinner.start", "", 0),
                  Callback("label1.set_text", "Updates: Checking...", 0) >>,
     thread |-> Thread("run_update_check", "L99")]

\* on_button_upgrade_clicked, lines 118-121
on_button_upgrade_clicked ==
    [posts |-> << Callback("spinner.start", "", 0),
                  Callback("label1.set_text", UPDATE_CHECKING, 0) >>,
     thread |-> Thread("run_upgrade", "L125")]

\* a finished (returned or died) thread
Finish(th, raised, posts) ==
    [th EXCEPT !.pc = "done", !.raised = raised, !.posted = th.posted \o posts]

\* the record of one PackageManager method call made by a thread: the method,
\* what the child process produced and what the caller received
Ran(th, op, call) ==
    [th EXCEPT !.ran = Append(th.ran, [op |-> op, result |-> call.result,
                                       value |-> call.value])]

\* run_update_check from line 101 on, with update_process bound
run_update_check_rest(update_process) ==
    IF update_process.type = "NoneType"
    THEN [raised |-> "AttributeError", posts |-> << >>]
    ELSE IF update_process.returncode # 0
    THEN [raised |-> "",
          posts |-> << Callback("show_error", "Unable to check for updates", 0) >>]
    ELSE LET updates == PyInt(Strip(update_process.stdout))
         IN  IF updates.raised = "ValueError"
             THEN [raised |-> "",
                   posts |-> << Callback("show_error", "Unable to parse update count", 0) >>]
             ELSE [raised |-> "", posts |-> << >>]

\* run_update_check, lines 97-111: line 99 is one step, lines 100-111 the next
run_update_check(th, pm, s) ==
    LET call == check_updates(pm, s)
        th1 == Ran(th, "check_updates", call)
    IN  IF call.raised # "" THEN Finish(th1, call.raised, << >>)
        ELSE IF th.pc = "L99" THEN [th1 EXCEPT !.pc = "L100"]
        ELSE LET rest == run_update_check_rest(call.value)
             IN  Finish(th1, rest.raised, rest.posts)

\* run_upgrade, lines 123-129
run_upgrade(th, pm, s) ==
    LET call == upgrade(pm, s)
        th1 == Ran(th, "upgrade", call)
        upgrade_process == call.value
    IN  IF call.raised # "" THEN Finish(th1, call.raised, << >>)
        ELSE IF upgrade_process.type = "NoneType"
        THEN Finish(th1, "AttributeError", << >>)
        ELSE IF upgrade_process.returncode # 0
        THEN Finish(th1, "", << Callback("show_error", "Unable to perform upgrade", 0) >>)
        ELSE Finish(th1, "", << Callback("update_after_upgrade", "", 0) >>)

(***************************************************************************)
(* State.                                                                  *)
(***************************************************************************)
VARIABLES
    os_release,       \* contents of /etc/os-release
    installed,        \* tools `which` finds on the search path
    sys,              \* package database as the commands report it
    pc,               \* line the main script is at; "main" inside Gtk.main()
    distro_id,        \* distro_check.distro_id, "" before line 303
    package_manager,  \* the module-level package_manager, None before line 304
    probed,           \* tool names handed to is_tool_available, in order
    constructed,      \* number of PackageManager instances constructed
    e,                \* message of the exception caught at line 305
    error_dialog,     \* "none", "shown" or "destroyed"
    win1,             \* "none" or "shown"; win1.package_manager once shown
    label1,           \* text of win1.label1
    spinner,          \* TRUE while win1.spinner is spinning
    button_upgrade,   \* sensitivity of win1.button_upgrade
    idle,             \* callables queued with GLib.idle_add, oldest first
    threads,          \* the worker threads started so far
    clicks,           \* handler invocations so far
    sent,             \* notifications handed to notify-send
    uncaught          \* exceptions that escaped a callback on the UI thread

env == << os_release, installed, sys >>
startup == << distro_id, package_manager, probed, constructed, e, error_dialog >>
widgets == << label1, spinner, button_upgrade >>
vars == << env, startup, pc, win1, widgets, idle, threads, clicks, sent, uncaught >>

NoWindow ==
    /\ win1 = [shown |-> FALSE, package_manager |-> None]
    /\ label1 = ""
    /\ spinner = FALSE
    /\ button_upgrade = FALSE

Quiet ==
    /\ idle = << >>
    /\ threads = << >>
    /\ clicks = 0
    /\ sent = << >>
    /\ uncaught = << >>

\* the process has just been started
Init ==
    /\ os_release \in OsReleaseFiles
    /\ installed \in SUBSET Tools
    /\ sys \in SysStates
    /\ pc = "L303"
    /\ distro_id = ""
    /\ package_manager = None
    /\ probed = << >>
    /\ constructed = 0
    /\ e = ""
    /\ error_dialog = "none"
    /\ NoWindow
    /\ Quiet

(***************************************************************************)
(* Module-level startup, src/main.py lines 302-318.                        *)
(***************************************************************************)
\* line 303: DistroCheck()
Startup_DistroCheck ==
    /\ pc = "L303"
    /\ LET r == get_distro_id(os_release)
       IN  IF r.raised = ""
           THEN /\ distro_id' = r.value
                /\ pc' = "L304"
                /\ e' = e
           ELSE /\ distro_id' = distro_id
                /\ pc' = "L306"
                /\ e' = r.message
    /\ UNCHANGED << env, package_manager, probed, constructed, error_dialog,
                    win1, widgets, idle, threads, clicks, sent, uncaught >>

\* line 304: distro_check.get_package_manager_for_distro()
Startup_Resolve ==
    /\ pc = "L304"
    /\ LET r == get_package_manager_for_distro(distro_id, installed)
       IN  /\ package_manager' = r.value
           /\ probed' = r.probed
           /\ constructed' = constructed + r.constructed
           /\ IF r.raised = ""
              THEN pc' = "L314" /\ e' = e
              ELSE pc' = "L306" /\ e' = r.message
    /\ UNCHANGED << env, distro_id, error_dialog, win1, widgets, idle, threads,
                    clicks, sent, uncaught >>

\* line 306: ErrorDialog(None, str(e)) shows itself
Startup_ErrorDialog ==
    /\ pc = "L306"
    /\ error_dialog' = "shown"
    /\ pc' = "L307"
    /\ UNCHANGED << env, distro_id, package_manager, probed, constructed, e,
                    win1, widgets, idle, threads, clicks, sent, uncaught >>

\* Gtk.main_quit(): leaves the innermost running main loop; with no loop
\* running it only logs a GTK critical warning
Gtk_main_quit(at) == IF at = "main" THEN "exit" ELSE at

\* lines 307-312: error_dialog.run() returns, then Gtk.main_quit()
Startup_DialogRun ==
    /\ pc = "L307"
    /\ \E response \in {"OK", "DELETE_EVENT"} :
          error_dialog' = IF response = "OK" THEN "destroyed" ELSE error_dialog
    /\ pc' = Gtk_main_quit("L318")
    /\ UNCHANGED << env, distro_id, package_manager, probed, constructed, e,
                    win1, widgets, idle, threads, clicks, sent, uncaught >>

\* lines 314-316: ChimeraWindow(package_manager), show_all()
Startup_Window ==
    /\ pc = "L314"
    /\ win1' = [shown |-> TRUE, package_manager |-> package_manager]
    /\ label1' = "Updates: Ready..."
    /\ spinner' = FALSE
    /\ button_upgrade' = FALSE
    /\ pc' = "L318"
    /\ UNCHANGED << env, startup, idle, threads, clicks, sent, uncaught >>

\* line 318: Gtk.main()
Gtk_main ==
    /\ pc = "L318"
    /\ pc' = "main"
    /\ UNCHANGED << env, startup, win1, widgets, idle, threads, clicks, sent, uncaught >>

(***************************************************************************)
(* The main loop: signals, idle callbacks and worker threads.              *)
(***************************************************************************)
Buttons == {"button_updates", "button_upgrade"}

\* the handler connected to a button's "clicked" signal
Handler(b) ==
    IF b = "button_updates" THEN on_button_updates_clicked
    ELSE on_button_upgrade_clicked

\* Sensitive as it would be with button_upgrade created sensitive
Sensitive_always(b) == TRUE

\* button_updates is created sensitive and stays so
Sensitive(b) == IF b = "button_updates" THEN TRUE ELSE button_upgrade

\* Handle as it would be with Thread(target=self.run_update_check()): the
\* target is called by the handler, on the UI thread, before the thread starts
Handle_called(b) ==
    /\ pc = "main"
    /\ win1.shown
    /\ clicks < MaxClicks
    /\ clicks' = clicks + 1
    /\ LET th == Handler(b).thread
           th1 == IF th.target = "run_update_check"
                  THEN run_update_check(run_update_check(th, win1.package_manager, sys),
                                        win1.package_manager, sys)
                  ELSE run_upgrade(th, win1.package_manager, sys)
       IN  /\ idle' = idle \o Handler(b).posts \o th1.posted
           /\ threads' = Append(threads, th1)
    /\ UNCHANGED << env, startup, pc, win1, widgets, sent, uncaught >>

\* the handler of button b runs on the UI thread
Handle(b) ==
    /\ pc = "main"
    /\ win1.shown
    /\ clicks < MaxClicks
    /\ clicks' = clicks + 1
    /\ idle' = idle \o Handler(b).posts
    /\ threads' = Append(threads, Handler(b).thread)
    /\ UNCHANGED << env, startup, pc, win1, widgets, sent, uncaught >>

\* the user clicks a sensitive button
Clicked == \E b \in Buttons : Sensitive(b) /\ Handle(b)

\* the Quit button, or closing the window: Gtk.main_quit ends Gtk.main()
Quit ==
    /\ pc = "main"
    /\ win1.shown
    /\ pc' = Gtk_main_quit(pc)
    /\ UNCHANGED << env, startup, win1, widgets, idle, threads, clicks, sent, uncaught >>

\* the main loop runs the oldest idle callable
IdleDispatch ==
    /\ pc = "main"
    /\ idle # << >>
    /\ \E notify_ok \in BOOLEAN :
          LET r == Invoke(Head(idle), Widgets(label1, spinner, button_upgrade), notify_ok)
          IN  /\ label1' = r.w.label1
              /\ spinner' = r.w.spinner
              /\ button_upgrade' = r.w.button_upgrade
              /\ sent' = sent \o r.sent
              /\ uncaught' = IF r.raised = "" THEN uncaught
                             ELSE Append(uncaught, r.raised)
    /\ idle' = Tail(idle)
    /\ UNCHANGED << env, startup, pc, win1, threads, clicks >>

\* Step as it would be with one Thread object kept and started again by every
\* click: once it has run, start() raises RuntimeError and nothing is run
Step_restarted(th, pm, s) ==
    IF \E u \in 1..Len(threads) : threads[u].pc = "done"
    THEN Finish(th, "RuntimeError", << >>)
    ELSE IF th.target = "run_update_check"
    THEN run_update_check(th, pm, s)
    ELSE run_upgrade(th, pm, s)

\* the next step of a worker thread
Step(th, pm, s) ==
    IF th.target = "run_update_check"
    THEN run_update_check(th, pm, s)
    ELSE run_upgrade(th, pm, s)

ThreadStep ==
    \E t \in 1..Len(threads) :
       /\ threads[t].pc # "done"
       /\ LET th == Step(threads[t], win1.package_manager, sys)
          IN  /\ threads' = [threads EXCEPT ![t] = th]
              /\ idle' = idle \o SubSeq(th.posted, Len(threads[t].posted) + 1,
                                        Len(th.posted))
       /\ UNCHANGED << env, startup, pc, win1, widgets, clicks, sent, uncaught >>

Next ==
    \/ Startup_DistroCheck
    \/ Startup_Resolve
    \/ Startup_ErrorDialog
    \/ Startup_DialogRun
    \/ Startup_Window
    \/ Gtk_main
    \/ Clicked
    \/ Quit
    \/ IdleDispatch
    \/ ThreadStep

\* the whole program, from process start
Spec == Init /\ [][Next]_vars

(***************************************************************************)
(* The handlers called directly on a window that startup has shown, as a   *)
(* test of ChimeraWindow does: no button sensitivity stands in the way.    *)
(* The hosts are the supported distros with one family of tools installed. *)
(***************************************************************************)
InitDirect ==
    /\ os_release \in {StandardRelease(d) : d \in DOMAIN package_managers}
    /\ installed \in {{"nala", "apt"}, {"apt"}, {"dnf"}, {"pacman"}}
    /\ sys \in SysStates
    /\ get_distro_id(os_release).raised = ""
    /\ distro_id = get_distro_id(os_release).value
    /\ LET r == get_package_manager_for_distro(distro_id, installed)
       IN  /\ r.raised = ""
           /\ package_manager = r.value
           /\ probed = r.probed
           /\ constructed = r.constructed
           /\ win1 = [shown |-> TRUE, package_manager |-> r.value]
    /\ e = ""
    /\ error_dialog = "none"
    /\ pc = "main"
    /\ label1 = "Updates: Ready..."
    /\ spinner = FALSE
    /\ button_upgrade = FALSE
    /\ Quiet

Called == \E b \in Buttons : Handle(b)

NextDirect ==
    \/ Called
    \/ Quit
    \/ IdleDispatch
    \/ ThreadStep

SpecDirect == InitDirect /\ [][NextDirect]_vars

(***************************************************************************)
(* Properties of distro resolution.                                        *)
(***************************************************************************)
\* line 304 has run: get_package_manager_for_distro returned or raised
Resolved == pc \notin {"L303", "L304"} /\ get_distro_id(os_release).raised = ""

Candidates == package_managers[distro_id]

UnsupportedMessage == "No supported package manager found for distro: " \o distro_id

NoBackendMessage == "No supported package manager available for distro: " \o distro_id

\* C1: for a distro of the support table with some candidate tool installed,
\* resolution yields the backend of the first candidate, in table order,
\* whose tool is installed: Nala for debian/ubuntu when nala and apt are both
\* installed, Apt when only apt is.
C1_FirstAvailableCandidate ==
    (Resolved /\ distro_id \in DOMAIN package_managers) =>
        /\ \A i \in 1..Len(Candidates) :
              ( /\ Candidates[i][1] \in installed
                /\ \A j \in 1..(i - 1) : Candidates[j][1] \notin installed )
              => /\ package_manager = Candidates[i][2]
                 /\ e = ""
        /\ Tools \subseteq installed => package_manager = Candidates[1][2]
        /\ (distro_id \in {"debian", "ubuntu"} /\ {"nala", "apt"} \subseteq installed)
              => package_manager.cls = "NalaManager"
        /\ (distro_id \in {"debian", "ubuntu"} /\ "apt" \in installed
                /\ "nala" \notin installed)
              => package_manager.cls = "AptManager"

\* debian with only apt installed has resolved to Apt
C1_Witness ==
    /\ pc = "L314"
    /\ distro_id = "debian"
    /\ installed = {"apt"}
    /\ package_manager = AptManager

\* C2: for a distro id that is no key of the support table, resolution raises
\* the unsupported-distro error, and no tool is ever probed and no backend
\* constructed in that run.
C2_UnsupportedNoProbe ==
    (Resolved /\ distro_id \notin DOMAIN package_managers) =>
        /\ e = UnsupportedMessage
        /\ probed = << >>
        /\ constructed = 0
        /\ package_manager = None

\* gentoo has been rejected
C2_Witness ==
    /\ pc = "L306"
    /\ distro_id = "gentoo"
    /\ installed = Tools
    /\ e = "No supported package manager found for distro: gentoo"

\* C3: for a distro of the support table with none of its candidate tools
\* installed, resolution probes every candidate in order, constructs no
\* backend and raises the no-available-backend error, whose message differs
\* from the unsupported-distro error's.
C3_NoBackendAvailable ==
    ( /\ Resolved
      /\ distro_id \in DOMAIN package_managers
      /\ \A i \in 1..Len(Candidates) : Candidates[i][1] \notin installed )
    => /\ probed = [i \in 1..Len(Candidates) |-> Candidates[i][1]]
       /\ constructed = 0
       /\ package_manager = None
       /\ e = NoBackendMessage
       /\ e # UnsupportedMessage

\* ubuntu with only dnf and pacman installed: nala and apt probed, none found
C3_Witness ==
    /\ pc = "L306"
    /\ distro_id = "ubuntu"
    /\ installed = {"dnf", "pacman"}
    /\ probed = << "nala", "apt" >>
    /\ e = "No supported package manager available for distro: ubuntu"

(***************************************************************************)
(* Properties of startup.                                                  *)
(***************************************************************************)
\* C10: when distro resolution fails at startup an error message is shown,
\* the main window is never created and the process does not enter the main
\* loop.
C10_FailedStartupAborts ==
    e # "" =>
        /\ pc \notin {"L306"} => error_dialog # "none"
        /\ ~win1.shown
        /\ pc # "main"

(***************************************************************************)
(* Properties of the check and upgrade operations.                         *)
(***************************************************************************)
\* the threads that ran target to its end
Completed(target) ==
    {t \in 1..Len(threads) :
        /\ threads[t].target = target
        /\ threads[t].pc = "done"}

\* the PackageManager methods thread t called, in order
Ops(t) == [i \in 1..Len(threads[t].ran) |-> threads[t].ran[i].op]

Posted(t, cb) == \E i \in 1..Len(threads[t].posted) : threads[t].posted[i] = cb

PostedFn(t, fn) == \E i \in 1..Len(threads[t].posted) : threads[t].posted[i].fn = fn

\* the count the count command reports, when its output is a number
Count == PyInt(Strip(sys.count_out))

\* C4: a check whose check command exits 0 and whose count command prints the
\* literal of n >= 0 hands n to update_results (NoUpdates for 0,
\* UpdatesAvailable(n) otherwise).
C4_CountDelivered ==
    \A t \in Completed("run_update_check") :
        (sys.check_rc = 0 /\ Count.raised = "" /\ Count.value >= 0)
            => Posted(t, Callback("update_results", "", Count.value))

\* C5: a check calls check_updates exactly once and, only when that exits 0,
\* count_updates after it; nothing else is run.
C5_CheckThenCount ==
    \A t \in Completed("run_update_check") :
        Ops(t) = IF sys.check_rc = 0
                 THEN << "check_updates", "count_updates" >>
                 ELSE << "check_updates" >>

\* C6: a check whose check command exits non-zero reports "Unable to check
\* for updates" through show_error, never calls count_updates and delivers
\* no count.
C6_CheckFailedReported ==
    \A t \in Completed("run_update_check") :
        sys.check_rc # 0 =>
            /\ Posted(t, Callback("show_error", "Unable to check for updates", 0))
            /\ \A i \in 1..Len(Ops(t)) : Ops(t)[i] # "count_updates"
            /\ ~PostedFn(t, "update_results")

\* C7: a check whose commands exit 0 but whose count output is no integer
\* literal reports "Unable to parse update count" through show_error and
\* does not call update_results.
C7_ParseFailedReported ==
    \A t \in Completed("run_update_check") :
        (sys.check_rc = 0 /\ Count.raised = "ValueError") =>
            /\ Posted(t, Callback("show_error", "Unable to parse update count", 0))
            /\ ~PostedFn(t, "update_results")

\* C8: an upgrade calls upgrade() exactly once; on exit 0 it queues
\* update_after_upgrade and reports no failure, on a non-zero exit it reports
\* a failure and never queues update_after_upgrade.
C8_UpgradeOutcome ==
    \A t \in Completed("run_upgrade") :
        /\ Ops(t) = << "upgrade" >>
        /\ IF sys.upgrade_rc = 0
           THEN /\ PostedFn(t, "update_after_upgrade")
                /\ ~PostedFn(t, "show_error")
           ELSE /\ PostedFn(t, "show_error")
                /\ ~PostedFn(t, "update_after_upgrade")

\* C9: every check_updates, count_updates or upgrade call hands its caller
\* the CompletedProcess of its command, with the exit code, stdout and
\* stderr, whatever the exit code.
C9_ResultReturned ==
    \A t \in 1..Len(threads) :
        \A i \in 1..Len(threads[t].ran) :
            /\ threads[t].ran[i].value = threads[t].ran[i].result
            /\ threads[t].ran[i].value.type = "CompletedProcess"

(***************************************************************************)
(* Properties of the window's operation cycle.                             *)
(***************************************************************************)
\* the worker threads that have been started and have not finished
InFlight == {t \in 1..Len(threads) : threads[t].pc # "done"}

\* C11: at any time at most one check or upgrade worker is in flight.
C11_OneInFlight == Cardinality(InFlight) <= 1

\* the run of thread t met a failure: a command exited non-zero or the count
\* could not be parsed
Failed(t) ==
    IF threads[t].target = "run_upgrade" THEN sys.upgrade_rc # 0
    ELSE sys.check_rc # 0 \/ Count.raised = "ValueError"

\* C12: with the main window showing, no worker is killed by an unhandled
\* exception, no callback raises on the UI thread, and every operation that
\* failed has queued show_error.
C12_FailuresVisible ==
    /\ uncaught = << >>
    /\ \A t \in 1..Len(threads) :
          threads[t].pc = "done" =>
              /\ threads[t].raised = ""
              /\ Failed(t) => PostedFn(t, "show_error")

\* what a check hands back: the exception that ended it, the callables it
\* queued and the commands it ran with their results
CheckOutcome(t) ==
    [raised |-> threads[t].raised, posted |-> threads[t].posted, ran |-> threads[t].ran]

IDLines == {i \in 1..Len(os_release.lines) : StartsWith(os_release.lines[i], "ID=")}

FirstID == CHOOSE i \in IDLines : \A j \in IDLines : i <= j

\* line 303 has run and returned a distro id
Identified == pc # "L303" /\ os_release.readable /\ IDLines # {}

\* what follows the key prefix on the first ID= line
Remainder == SliceFrom(os_release.lines[FirstID], 3)

\* s without one pair of surrounding quotes
Unquote(s) ==
    IF Len(s) >= 2 /\ CharAt(s, 1) \in {"\"", "'"} /\ CharAt(s, Len(s)) = CharAt(s, 1)
    THEN SubSeq(s, 2, Len(s) - 1)
    ELSE s

\* d is r without its leading and trailing whitespace, and nothing else
TrimmedOf(r, d) ==
    \E a, b \in 0..Len(r) :
        /\ a + b <= Len(r)
        /\ d = SubSeq(r, a + 1, Len(r) - b)
        /\ \A k \in 1..a : CharAt(r, k) \in Whitespace
        /\ \A k \in (Len(r) - b + 1)..Len(r) : CharAt(r, k) \in Whitespace
        /\ Len(d) > 0 => /\ CharAt(d, 1) \notin Whitespace
                         /\ CharAt(d, Len(d)) \notin Whitespace

\* r without its leading and trailing whitespace
Trimmed(r) ==
    CHOOSE d \in {SubSeq(r, p[1] + 1, Len(r) - p[2]) :
                     p \in {q \in (0..Len(r)) \X (0..Len(r)) : q[1] + q[2] <= Len(r)}} :
        TrimmedOf(r, d)

QuotedUbuntu == ReleaseFile(<< "ID_LIKE=debian\n", "ID=\"ubuntu\"\n" >>)

\* C14 as stated: the distro id is the remainder of the first ID= line with
\* surrounding whitespace and quoting removed, so ID="ubuntu" gives the id,
\* and the backend, that ID=ubuntu gives.
C14_QuotesTrimmed ==
    Identified =>
        /\ distro_id = Unquote(Trimmed(Remainder))
        /\ (os_release = QuotedUbuntu /\ Resolved /\ "apt" \in installed)
              => package_manager \in {NalaManager, AptManager}

\* C14 (amended): the distro id is the remainder of the first ID= line (later
\* ID= lines and other keys such as ID_LIKE= are ignored) with surrounding
\* whitespace removed and nothing else: quotes are kept, so ID="ubuntu" gives
\* an id that is no key of the support table and resolution raises the
\* unsupported-distro error.
C14_WhitespaceTrimmedOnly ==
    Identified =>
        /\ TrimmedOf(Remainder, distro_id)
        /\ os_release = QuotedUbuntu =>
              /\ distro_id = "\"ubuntu\""
              /\ Resolved => /\ package_manager = None
                             /\ probed = << >>
                             /\ e = UnsupportedMessage
        /\ os_release = ReleaseFile(<< "ID=fedora \n", "ID=arch\n" >>)
              => distro_id = "fedora"

\* the quoted ubuntu id has been rejected on a host that has apt
C14_Witness ==
    /\ pc = "L306"
    /\ os_release = QuotedUbuntu
    /\ "apt" \in installed
    /\ distro_id = "\"ubuntu\""
    /\ e = "No supported package manager found for distro: \"ubuntu\""

(***************************************************************************)
(* Properties of the package-manager instance.                             *)
(***************************************************************************)
TemplatesNonEmpty(pm) ==
    /\ pm.check_updates_cmd # ""
    /\ pm.count_updates_cmd # ""
    /\ pm.upgrade_cmd # ""

\* C15: the package manager that resolution returned, and the one the window
\* holds, has its three command templates non-empty in every state, whatever
\* checks and upgrades have run.
C15_TemplatesNonEmpty ==
    /\ package_manager # None =>
          /\ package_manager \in Managers
          /\ TemplatesNonEmpty(package_manager)
    /\ win1.shown => TemplatesNonEmpty(win1.package_manager)

\* a Nala window after a check and an upgrade have both run to their end
C15_Witness ==
    /\ win1.shown
    /\ win1.package_manager.cls = "NalaManager"
    /\ Completed("run_update_check") # {}
    /\ Completed("run_upgrade") # {}

\* C16: at most one PackageManager is ever constructed, exactly one once the
\* window exists, and from then on no step changes it: the instance the
\* window holds stays the one resolution returned, templates included.
C16_SingleInstance ==
    [][ /\ constructed' <= 1
        /\ constructed = 1 => /\ constructed' = 1
                              /\ package_manager' = package_manager
        /\ win1.shown => /\ constructed = 1
                         /\ win1.package_manager = package_manager
                         /\ win1' = win1 ]_vars

\* an Apt window after a check has run to its end
C16_Witness ==
    /\ win1.shown
    /\ constructed = 1
    /\ win1.package_manager = AptManager
    /\ distro_id = "debian"
    /\ Completed("run_update_check") # {}

(***************************************************************************)
(* Properties of the threading discipline.                                 *)
(***************************************************************************)
\* C17: a click handler runs no command itself, it only starts a worker;
\* a worker's step touches no widget, it only queues callables; and a widget
\* changes only when the window is built or when the main loop runs the
\* oldest queued callable.
C17_WorkersOffUiThread ==
    [][ /\ clicks' # clicks =>
              /\ Len(threads') = Len(threads) + 1
              /\ SubSeq(threads', 1, Len(threads)) = threads
              /\ threads'[Len(threads')].ran = << >>
              /\ threads'[Len(threads')].pc # "done"
              /\ widgets' = widgets
        /\ (threads' # threads /\ clicks' = clicks) =>
              /\ widgets' = widgets
              /\ sent' = sent
              /\ uncaught' = uncaught
              /\ Len(idle') >= Len(idle)
              /\ SubSeq(idle', 1, Len(idle)) = idle
        /\ widgets' # widgets =>
              \/ pc = "L314"
              \/ /\ pc = "main"
                 /\ idle # << >>
                 /\ idle' = Tail(idle)
                 /\ threads' = threads ]_vars

\* a worker has run its commands and the handler's two callables have run on
\* the UI thread
C17_Witness ==
    /\ \E t \in 1..Len(threads) : threads[t].pc = "done" /\ Len(threads[t].ran) = 2
    /\ idle = << >>
    /\ label1 = UPDATE_CHECKING
    /\ spinner

(***************************************************************************)
(* Properties of the upgrade button and of the cycle's end.                *)
(***************************************************************************)
\* C18: the upgrade button is sensitive, or an upgrade has been started, only
\* if a check has run to its end and handed a count above 0 to
\* update_results.
C18_UpgradeOnlyAfterCount ==
    (button_upgrade \/ \E t \in 1..Len(threads) : threads[t].target = "run_upgrade")
    => \E t \in Completed("run_update_check") :
          \E i \in 1..Len(threads[t].posted) :
             /\ threads[t].posted[i].fn = "update_results"
             /\ threads[t].posted[i].n > 0

\* a check has run to its end without handing over a count, every queued
\* callable has run, and the button is insensitive with no upgrade started
C18_Witness ==
    /\ pc = "main"
    /\ Completed("run_update_check") # {}
    /\ \A t \in 1..Len(threads) : ~PostedFn(t, "update_results")
    /\ idle = << >>
    /\ ~button_upgrade
    /\ \A t \in 1..Len(threads) : threads[t].target # "run_upgrade"

\* C19: once every started worker has finished and every queued callable has
\* run, the spinner is stopped and the label is no longer the checking text.
C19_CycleFinishes ==
    (pc = "main" /\ clicks > 0 /\ InFlight = {} /\ idle = << >>)
    => /\ ~spinner
       /\ label1 # UPDATE_CHECKING

====
